---------------------------- MODULE Spec2Model ----------------------------
(***************************************************************************)
(* Model of the lending logic of app.py: the Book and Borrow tables and    *)
(* the request handlers add_book, edit_book, borrow_book and return_book.  *)
(*                                                                         *)
(* A handler runs in one SQLAlchemy session and ends in one commit, so     *)
(* under Spec each handler is one atomic action.  ConcSpec splits          *)
(* borrow_book at its database round trips (SELECT book, SELECT borrow,    *)
(* UPDATE + INSERT + COMMIT), one in-flight request per user, to study     *)
(* interleaved requests.                                                   *)
(*                                                                         *)
(* Not modelled: titles, authors, categories, borrow_date and due_date     *)
(* (no handler reads them back), passwords and the login session (every    *)
(* handler below is @login_required, so the acting user is a known User),  *)
(* delete_book, and the GET branches, which only render a page.  The       *)
(* sample rows that init_database inserts are plain Book rows with         *)
(* available_copies = total_copies, which is what add_book produces; the   *)
(* catalog therefore starts empty and is filled through add_book.          *)
(***************************************************************************)
EXTENDS Integers, Sequences, FiniteSets

\* ------------------------------------------------------------------ bounds
MaxBooks == 2

MaxBorrows == 2

MaxTime == 2

\* ------------------------------------------------------------------ inputs
\* The rows of the User table: the admin provisioned by init_database and
\* two registered accounts.
Users == {"admin", "alice", "bob"}

is_admin(u) == u = "admin"

\* A missing form field (request.form.get returns None).
None == <<"None">>

\* Values of the form field 'copies', as the strings the browser posts.
CopiesForm == { <<"-", "1">>, <<"1">>, <<"2">>, <<"a", "b", "c">> }

BookIds == 1..MaxBooks

BorrowIds == 1..MaxBorrows

\* --------------------------------------------------------------- int(...)
Digits == {"0", "1", "2", "3", "4", "5", "6", "7", "8", "9"}

DigitVal(c) ==
    CASE c = "0" -> 0 [] c = "1" -> 1 [] c = "2" -> 2 [] c = "3" -> 3
      [] c = "4" -> 4 [] c = "5" -> 5 [] c = "6" -> 6 [] c = "7" -> 7
      [] c = "8" -> 8 [] c = "9" -> 9

IsDigits(s) == Len(s) > 0 /\ \A i \in 1..Len(s) : s[i] \in Digits

RECURSIVE ParseNat(_)
ParseNat(s) ==
    IF Len(s) = 0 THEN 0
    ELSE 10 * ParseNat(SubSeq(s, 1, Len(s) - 1)) + DigitVal(s[Len(s)])

\* Whether Python's int(s) returns (TRUE) or raises ValueError/TypeError.
IntOk(s) ==
    /\ s # None
    /\ Len(s) > 0
    /\ IF s[1] \in {"-", "+"} THEN IsDigits(Tail(s)) ELSE IsDigits(s)

\* The value of int(s) when IntOk(s).
int(s) ==
    IF s[1] = "-" THEN 0 - ParseNat(Tail(s))
    ELSE IF s[1] = "+" THEN ParseNat(Tail(s))
    ELSE ParseNat(s)

\* ------------------------------------------------------------------- state
VARIABLES
    books,      \* the Book table: books[id] = [total_copies, available_copies]
    borrows,    \* the Borrow table: borrows[id] = [user_id, book_id, status, return_date]
    now,        \* the last reading of datetime.utcnow(); each reading is later
                \* than the one before (requests are handled one after another)
    sess        \* ConcSpec: per user, the in-flight borrow_book request

vars == <<books, borrows, now, sess>>

db == <<books, borrows>>

Book(copies) == [total_copies |-> copies, available_copies |-> copies]

Borrow(u, b) ==
    [user_id |-> u, book_id |-> b, status |-> "borrowed", return_date |-> None]

Idle == [pc |-> "idle", book_id |-> 0, available_copies |-> 0]

init_database ==
    /\ books = << >>
    /\ borrows = << >>
    /\ now = 0
    /\ sess = [u \in Users |-> Idle]

Init == init_database

exists_book(b) == b \in 1..Len(books)

exists_borrow(i) == i \in 1..Len(borrows)

\* existing with the status filter on the wrong value.
existing_returned(u, b) ==
    { i \in 1..Len(borrows) :
        /\ borrows[i].user_id = u
        /\ borrows[i].book_id = b
        /\ borrows[i].status = "returned" }

\* Borrow.query.filter_by(user_id=..., book_id=..., status='borrowed')
existing(u, b) ==
    { i \in 1..Len(borrows) :
        /\ borrows[i].user_id = u
        /\ borrows[i].book_id = b
        /\ borrows[i].status = "borrowed" }

\* The number of Borrow rows of book b with status 'borrowed'.
ActiveBorrows(b) ==
    Cardinality({ i \in 1..Len(borrows) :
        borrows[i].book_id = b /\ borrows[i].status = "borrowed" })

\* ---------------------------------------------------------------- add_book
\* How the request ends: its flash message, or the error page.
add_book_result(u, copies) ==
    IF ~is_admin(u) THEN "AdminOnly"
    ELSE LET form == IF copies = None THEN <<"1">> ELSE copies IN
         IF ~IntOk(form) THEN "ServerError" ELSE "AddOk"

add_book(u, copies) ==
    /\ UNCHANGED <<borrows, now, sess>>
    /\ IF add_book_result(u, copies) = "AddOk"
       THEN LET form == IF copies = None THEN <<"1">> ELSE copies IN
            /\ Len(books) < MaxBooks
            /\ books' = Append(books, Book(int(form)))
       ELSE UNCHANGED books

\* --------------------------------------------------------------- edit_book
\* edit_book resetting available_copies instead of shifting it.
EditedBook_reset(book, new_copies) ==
    [total_copies |-> new_copies, available_copies |-> new_copies]

EditedBook(book, new_copies) ==
    LET diff == new_copies - book.total_copies IN
    [total_copies |-> new_copies,
     available_copies |-> book.available_copies + diff]

edit_book_result(u, b, copies) ==
    IF ~is_admin(u) THEN "AdminOnly"
    ELSE IF ~exists_book(b) THEN "NotFound"
    ELSE IF ~IntOk(copies) THEN "ServerError"
    ELSE "EditOk"

edit_book(u, b, copies) ==
    /\ UNCHANGED <<borrows, now, sess>>
    /\ IF edit_book_result(u, b, copies) = "EditOk"
       THEN books' = [books EXCEPT ![b] = EditedBook(books[b], int(copies))]
       ELSE UNCHANGED books

\* ------------------------------------------------------------- borrow_book
\* The availability test off by one.
NoCopiesLeft_strict(available_copies) == available_copies < 0

NoCopiesLeft(available_copies) == available_copies <= 0

borrow_book_result(u, b) ==
    IF ~exists_book(b) THEN "NotFound"
    ELSE IF NoCopiesLeft(books[b].available_copies) THEN "NotAvailable"
    ELSE IF existing(u, b) # {} THEN "AlreadyBorrowed"
    ELSE "BorrowOk"

borrow_book(u, b) ==
    /\ UNCHANGED <<now, sess>>
    /\ IF borrow_book_result(u, b) = "BorrowOk"
       THEN /\ Len(borrows) < MaxBorrows
            /\ books' = [books EXCEPT ![b].available_copies = @ - 1]
            /\ borrows' = Append(borrows, Borrow(u, b))
       ELSE UNCHANGED db

\* ------------------------------------------------------------- return_book
\* The authorization test with "or" for "and".
MayReturn_or(u, borrow) == ~(borrow.user_id # u \/ ~is_admin(u))

MayReturn(u, borrow) == ~(borrow.user_id # u /\ ~is_admin(u))

return_book_result(u, i) ==
    IF ~exists_borrow(i) THEN "NotFound"
    ELSE IF ~MayReturn(u, borrows[i]) THEN "Unauthorized"
    ELSE "ReturnOk"

return_book(u, i) ==
    /\ UNCHANGED sess
    /\ IF return_book_result(u, i) = "ReturnOk"
       THEN /\ now < MaxTime
            /\ now' = now + 1
            /\ borrows' = [borrows EXCEPT ![i].status = "returned",
                                          ![i].return_date = now']
            /\ books' = [books EXCEPT
                           ![borrows[i].book_id].available_copies = @ + 1]
       ELSE UNCHANGED <<db, now>>

\* The posted forms that differ in effect: add_book and edit_book read the
\* form only after the admin test, so one form stands for all of them when
\* the user is no admin.
Forms(u) == IF is_admin(u) THEN CopiesForm \cup {None} ELSE {None}

Next ==
    \/ \E u \in Users : \E c \in Forms(u) : add_book(u, c)
    \/ \E u \in Users, b \in BookIds : \E c \in Forms(u) : edit_book(u, b, c)
    \/ \E u \in Users, b \in BookIds : borrow_book(u, b)
    \/ \E u \in Users, i \in BorrowIds : return_book(u, i)

Spec == Init /\ [][Next]_vars

\* Lending only: the catalog is filled by add_book and never edited.
LendNext ==
    \/ \E u \in Users : \E c \in Forms(u) : add_book(u, c)
    \/ \E u \in Users, b \in BookIds : borrow_book(u, b)
    \/ \E u \in Users, i \in BorrowIds : return_book(u, i)

LendSpec == Init /\ [][LendNext]_vars

\* ------------------------------------------- borrow_book, request by request
\* Book.query.get_or_404(book_id) and the test of the loaded available_copies;
\* a request that ends here changes nothing.
BorrowLoad(u, b) ==
    /\ sess[u].pc = "idle"
    /\ UNCHANGED <<db, now>>
    /\ IF exists_book(b) /\ ~NoCopiesLeft(books[b].available_copies)
       THEN sess' = [sess EXCEPT ![u] =
                       [pc |-> "loaded", book_id |-> b,
                        available_copies |-> books[b].available_copies]]
       ELSE UNCHANGED sess

\* Borrow.query.filter_by(...).first() and the test of its result.
BorrowQuery(u) ==
    /\ sess[u].pc = "loaded"
    /\ UNCHANGED <<db, now>>
    /\ IF existing(u, sess[u].book_id) # {}
       THEN sess' = [sess EXCEPT ![u] = Idle]
       ELSE sess' = [sess EXCEPT ![u].pc = "pending"]

\* book.available_copies -= 1 on the loaded object, db.session.add(borrow)
\* and db.session.commit(): the UPDATE writes the value computed from the
\* one this request loaded.
BorrowCommit(u) ==
    /\ sess[u].pc = "pending"
    /\ Len(borrows) < MaxBorrows
    /\ books' = [books EXCEPT ![sess[u].book_id].available_copies =
                                 sess[u].available_copies - 1]
    /\ borrows' = Append(borrows, Borrow(u, sess[u].book_id))
    /\ sess' = [sess EXCEPT ![u] = Idle]
    /\ UNCHANGED now

ConcNext ==
    \/ \E u \in Users : \E c \in Forms(u) : add_book(u, c)
    \/ \E u \in Users, b \in BookIds : BorrowLoad(u, b)
    \/ \E u \in Users : BorrowQuery(u)
    \/ \E u \in Users : BorrowCommit(u)

ConcSpec == Init /\ [][ConcNext]_vars

\* ================================================================ properties
\* The (user, book) pairs with an active borrow, read off the table.
Holds(u, b) ==
    \E i \in 1..Len(borrows) :
        /\ borrows[i].user_id = u
        /\ borrows[i].book_id = b
        /\ borrows[i].status = "borrowed"

\* C1: for every book, available_copies = total_copies minus the number of
\* its Borrow rows with status 'borrowed', in every reachable state.
C1_CopyCountInvariant ==
    \A b \in 1..Len(books) :
        books[b].available_copies = books[b].total_copies - ActiveBorrows(b)

\* C2: with borrows and returns only, a book created with total_copies >= 0
\* keeps available_copies within [0, total_copies].
C2_AvailableInRange ==
    \A b \in 1..Len(books) :
        books[b].total_copies >= 0 =>
            /\ books[b].available_copies >= 0
            /\ books[b].available_copies <= books[b].total_copies

\* C3: return_book on a Borrow row that is already 'returned' does not
\* increment the book's available_copies again.
C3_NoDoubleIncrement ==
    [][\A u \in Users, i \in BorrowIds :
         (exists_borrow(i) /\ borrows[i].status = "returned" /\ return_book(u, i))
         => books'[borrows[i].book_id].available_copies
              = books[borrows[i].book_id].available_copies]_vars

\* C4: borrow_book on a book with available_copies <= 0 ends NotAvailable and
\* no step of it changes either table.
C4_SoldOutBorrowFails ==
    \A u \in Users, b \in BookIds :
        (exists_book(b) /\ books[b].available_copies <= 0)
        => /\ borrow_book_result(u, b) = "NotAvailable"
           /\ ~ENABLED (borrow_book(u, b) /\ ~UNCHANGED db)

\* Both copies of a book are lent out.
C4_Witness ==
    \E b \in 1..Len(books) :
        /\ books[b].total_copies = 2
        /\ books[b].available_copies = 0
        /\ ActiveBorrows(b) = 2

AtMostOneActive ==
    \A i, j \in 1..Len(borrows) :
        ( /\ borrows[i].user_id = borrows[j].user_id
          /\ borrows[i].book_id = borrows[j].book_id
          /\ borrows[i].status = "borrowed"
          /\ borrows[j].status = "borrowed" ) => i = j

\* C5 as stated: at most one active Borrow row per (user, book), and a
\* borrow_book by a user holding the book ends AlreadyBorrowed with both
\* tables unchanged.
C5_Original ==
    /\ AtMostOneActive
    /\ \A u \in Users, b \in BookIds :
         (exists_book(b) /\ Holds(u, b))
         => /\ borrow_book_result(u, b) = "AlreadyBorrowed"
            /\ ~ENABLED (borrow_book(u, b) /\ ~UNCHANGED db)

\* C5 amended: at most one active Borrow row per (user, book), and a
\* borrow_book by a user holding the book changes neither table; it ends
\* AlreadyBorrowed when the book has a copy left and NotAvailable when it
\* has none (the availability test comes first).
C5_HolderBorrowFails ==
    /\ AtMostOneActive
    /\ \A u \in Users, b \in BookIds :
         (exists_book(b) /\ Holds(u, b))
         => /\ borrow_book_result(u, b)
                 = IF books[b].available_copies > 0
                   THEN "AlreadyBorrowed" ELSE "NotAvailable"
            /\ ~ENABLED (borrow_book(u, b) /\ ~UNCHANGED db)

\* A user holds a book that still has a copy left.
C5_Witness ==
    \E u \in Users, b \in 1..Len(books) :
        Holds(u, b) /\ books[b].available_copies > 0

\* C6: return_book by a user who neither owns the Borrow row nor is an admin
\* ends Unauthorized and no step of it changes either table; by the owner
\* or an admin it ends ReturnOk and every step of it leaves the row
\* 'returned'.
C6_ReturnAuthorization ==
    \A u \in Users, i \in BorrowIds :
        exists_borrow(i)
        => IF borrows[i].user_id # u /\ u # "admin"
           THEN /\ return_book_result(u, i) = "Unauthorized"
                /\ ~ENABLED (return_book(u, i) /\ ~UNCHANGED db)
           ELSE /\ return_book_result(u, i) = "ReturnOk"
                /\ ~ENABLED (return_book(u, i) /\ borrows'[i].status # "returned")

\* One Borrow row has been returned while the admin's row is still active,
\* so that a return of it by another user is refused.
C6_Witness ==
    \E i, j \in 1..Len(borrows) :
        /\ borrows[i].user_id = "admin"
        /\ borrows[i].status = "borrowed"
        /\ borrows[j].user_id # "admin"
        /\ borrows[j].status = "returned"

\* What C7 says of a step that edits book b to the posted copies c.
EditPost(b, c) ==
    /\ books'[b].total_copies = int(c)
    /\ books'[b].available_copies - books[b].available_copies
         = int(c) - books[b].total_copies
    /\ Len(books') = Len(books)
    /\ \A o \in 1..Len(books) : o # b => books'[o] = books[o]
    /\ borrows' = borrows

\* C7: a successful edit_book of book b from N to M copies sets total_copies
\* to M, shifts available_copies by M - N and leaves the other books and the
\* Borrow table unchanged: the edit ends EditOk, can be taken, and no step
\* of it does otherwise.
C7_EditShiftsByDelta ==
    \A b \in BookIds, c \in CopiesForm :
        (exists_book(b) /\ IntOk(c))
        => /\ edit_book_result("admin", b, c) = "EditOk"
           /\ ENABLED edit_book("admin", b, c)
           /\ ~ENABLED (edit_book("admin", b, c) /\ ~EditPost(b, c))

\* An edit has shrunk a lent-out book below its active borrows, next to
\* another book.
C7_Witness ==
    /\ Len(books) = 2
    /\ \E b \in 1..Len(books) :
         /\ books[b].total_copies = 0 - 1
         /\ ActiveBorrows(b) = 1
         /\ books[b].available_copies = 0 - 2

\* C8: a Borrow row is created 'borrowed' with no return date, is never
\* removed, and once 'returned' never changes again.
C8_BorrowLifecycle ==
    [][/\ Len(borrows') >= Len(borrows)
       /\ \A i \in 1..Len(borrows) :
            /\ borrows'[i].user_id = borrows[i].user_id
            /\ borrows'[i].book_id = borrows[i].book_id
            /\ borrows[i].status = "returned" => borrows'[i] = borrows[i]
       /\ \A i \in (Len(borrows) + 1)..Len(borrows') :
            borrows'[i].status = "borrowed" /\ borrows'[i].return_date = None]_vars

\* C9: add_book with negative copies ends in a validation error and adds
\* no book; a book enters the catalog only with total_copies =
\* available_copies >= 0.
C9_AddBookValidates ==
    /\ [](\A c \in CopiesForm :
            (IntOk(c) /\ int(c) < 0) => add_book_result("admin", c) = "ValidationError")
    /\ [][\A b \in (Len(books) + 1)..Len(books') :
            /\ books'[b].total_copies >= 0
            /\ books'[b].available_copies = books'[b].total_copies]_vars

\* C10: under interleaved borrow_book requests no book of nonnegative
\* total_copies gets a negative available_copies or more active Borrow rows
\* than copies (on the last copy, at most one request succeeds).
C10_LastCopyRaceSafe ==
    \A b \in 1..Len(books) :
        books[b].total_copies >= 0 =>
            /\ books[b].available_copies >= 0
            /\ ActiveBorrows(b) <= books[b].total_copies

=============================================================================
